---- MODULE Spec2Model ----
(***************************************************************************)
(* A model of the chatbot of src/chatbot.py: the message router            *)
(* (ChatBot.process_message and its handlers), the record store (todos,    *)
(* chat messages, agent actions), the background action runner             *)
(* (AgentExecutor) and the WebSocket receive loop (websocket_endpoint).    *)
(*                                                                         *)
(* Text.  A Python str is a TLA+ string, read character by character with  *)
(* SubSeq, so that `in`, lower(), replace(), strip() and the regular       *)
(* expressions of the handlers are computed on the characters.  The        *)
(* responses carry the wording of the source; the emoji that opens some of *)
(* them is written as a bracketed ASCII tag such as "[ok] ".               *)
(*                                                                         *)
(* Scheduling.  The program runs on one asyncio event loop.  A coroutine   *)
(* runs without interruption up to an await that really suspends: the      *)
(* sqlite3 calls are synchronous, so add_message, the todo operations and  *)
(* execute_action are atomic; receive_text, send_text, the aiohttp calls   *)
(* of the MCP clients, create_subprocess_shell and asyncio.sleep suspend.  *)
(* One action of the model is one such uninterrupted run.  The record      *)
(* store itself (sqlite3) is taken to work: its statements do not fail.    *)
(***************************************************************************)
EXTENDS Integers, Sequences, FiniteSets, TLC

(***************************************************************************)
(* Bounds of the model.                                                    *)
(***************************************************************************)
MaxMsgs == 2
MaxActions == 2
MaxHistMsgs == 53
MaxOld == 1
MaxFrags == 2
MaxCmds == 2
MaxOldTodos == 2
MaxTodos == 2
MaxTime == 2
MaxApiCalls == 3
MaxOldActions == 1

(***************************************************************************)
(* Text                                                                    *)
(***************************************************************************)
UpperLetters == "ABCDEFGHIJKLMNOPQRSTUVWXYZ"

LowerLetters == "abcdefghijklmnopqrstuvwxyz"

\* s[i] of Python (1-based here), a one-character string
Char(s, i) == SubSeq(s, i, i)

LowerChar(ch) ==
  IF \E i \in 1..26 : Char(UpperLetters, i) = ch
  THEN Char(LowerLetters, CHOOSE i \in 1..26 : Char(UpperLetters, i) = ch)
  ELSE ch

\* str.lower()
RECURSIVE Lower(_)
Lower(s) == IF s = "" THEN "" ELSE LowerChar(Head(s)) \o Lower(Tail(s))

\* str.upper()
UpperChar(ch) ==
  IF \E i \in 1..26 : Char(LowerLetters, i) = ch
  THEN Char(UpperLetters, CHOOSE i \in 1..26 : Char(LowerLetters, i) = ch)
  ELSE ch

RECURSIVE Upper(_)
Upper(s) == IF s = "" THEN "" ELSE UpperChar(Head(s)) \o Upper(Tail(s))

\* s.startswith(p)
StartsWith(s, p) == Len(p) <= Len(s) /\ SubSeq(s, 1, Len(p)) = p

\* p in s
Contains(s, p) ==
  \E i \in 1..(Len(s) - Len(p) + 1) : SubSeq(s, i, i + Len(p) - 1) = p

\* any(p in s for p in ps)
ContainsAny(s, ps) == \E p \in ps : Contains(s, p)

\* s[n:]
Drop(s, n) == SubSeq(s, n + 1, Len(s))

\* s.replace(old, ""), old not empty: the non-overlapping occurrences, left to right
RECURSIVE Remove(_, _)
Remove(s, old) ==
  IF Len(s) < Len(old) THEN s
  ELSE IF StartsWith(s, old) THEN Remove(Drop(s, Len(old)), old)
  ELSE Head(s) \o Remove(Tail(s), old)

WhiteSpace == {" ", "\t", "\n"}

RECURSIVE LStrip(_)
LStrip(s) == IF s # "" /\ Head(s) \in WhiteSpace THEN LStrip(Tail(s)) ELSE s

RECURSIVE RStrip(_)
RStrip(s) ==
  IF s # "" /\ Char(s, Len(s)) \in WhiteSpace
  THEN RStrip(SubSeq(s, 1, Len(s) - 1))
  ELSE s

\* the title taken as it is left by the replaces, without strip()
Strip_None(s) == s

\* str.strip()
Strip(s) == RStrip(LStrip(s))

Digits == "0123456789"

IsDigit(ch) == \E d \in 1..10 : Char(Digits, d) = ch

DigitValue(ch) == (CHOOSE d \in 1..10 : Char(Digits, d) = ch) - 1

\* the longest run of digits at the head of s
RECURSIVE DigitRun(_)
DigitRun(s) ==
  IF s # "" /\ IsDigit(Head(s)) THEN Head(s) \o DigitRun(Tail(s)) ELSE ""

\* re.findall(r'\d+', s)[0], or "" when findall returns []
RECURSIVE FirstNumber(_)
FirstNumber(s) ==
  IF s = "" THEN ""
  ELSE IF IsDigit(Head(s)) THEN DigitRun(s)
  ELSE FirstNumber(Tail(s))

\* int(s) of a run of digits
RECURSIVE ParseInt(_)
ParseInt(s) ==
  IF s = "" THEN 0
  ELSE 10 * ParseInt(SubSeq(s, 1, Len(s) - 1)) + DigitValue(Char(s, Len(s)))

\* whether the run of digits a, as long as the run b, is the greater number
RECURSIVE DigitsGreater(_, _)
DigitsGreater(a, b) ==
  IF a = "" THEN FALSE
  ELSE IF DigitValue(Head(a)) # DigitValue(Head(b))
    THEN DigitValue(Head(a)) > DigitValue(Head(b))
  ELSE DigitsGreater(Tail(a), Tail(b))

\* a run of digits without its leading zeros
RECURSIVE NoLeadingZeros(_)
NoLeadingZeros(s) == IF s # "" /\ Head(s) = "0" THEN NoLeadingZeros(Tail(s)) ELSE s

\* the greatest INTEGER of sqlite, 2^63 - 1
SqliteMaxInt == "9223372036854775807"

\* whether int(s) is too large to bind as an INTEGER of sqlite (OverflowError)
TooLarge(s) ==
  LET d == NoLeadingZeros(s)
  IN \/ Len(d) > Len(SqliteMaxInt)
     \/ Len(d) = Len(SqliteMaxInt) /\ DigitsGreater(d, SqliteMaxInt)

\* str(n), n >= 0
RECURSIVE IntToStr(_)
IntToStr(n) ==
  IF n < 10 THEN Char(Digits, n + 1)
  ELSE IntToStr(n \div 10) \o Char(Digits, (n % 10) + 1)

\* the longest run of non-whitespace characters at the head of s
RECURSIVE NonSpaceRun(_)
NonSpaceRun(s) ==
  IF s # "" /\ Head(s) \notin WhiteSpace THEN Head(s) \o NonSpaceRun(Tail(s)) ELSE ""

\* whether https?://[^\s]+ matches at the head of s, and the match
UrlAt(s) ==
  IF StartsWith(s, "https://") /\ NonSpaceRun(Drop(s, 8)) # ""
    THEN "https://" \o NonSpaceRun(Drop(s, 8))
  ELSE IF StartsWith(s, "http://") /\ NonSpaceRun(Drop(s, 7)) # ""
    THEN "http://" \o NonSpaceRun(Drop(s, 7))
  ELSE ""

\* re.findall(r'https?://[^\s]+', s)[0], or "" when findall returns []
RECURSIVE FirstUrl(_)
FirstUrl(s) ==
  IF s = "" THEN ""
  ELSE IF UrlAt(s) # "" THEN UrlAt(s)
  ELSE FirstUrl(Tail(s))

(***************************************************************************)
(* State                                                                   *)
(***************************************************************************)
VARIABLES
  todos,      \* rows of table todos, in rowid order
  todoSeq,    \* the AUTOINCREMENT counter of table todos
  chatLog,    \* rows of table chat_messages, in rowid order
  history,    \* ChatManager.conversation_history
  actions,    \* rows of table agent_actions; the row of id i is actions[i]
  results,    \* AgentExecutor.results
  tasks,      \* the background task of each action: where it is, and its params
  conns,      \* each connection's websocket_endpoint coroutine: where it is
  active,     \* WebSocketManager.active_connections
  calls,      \* every call of process_message so far, in the order of the calls,
              \* with the todos before and after it
  sent,       \* what send_text has sent on each connection
  now,        \* the clock, in seconds
  http        \* the calls of the REST API of the todos so far, with their responses

vars ==
  <<todos, todoSeq, chatLog, history, actions, results, tasks, conns, active,
    calls, sent, now, http>>

Conns == {"c1", "c2"}

max_history == 50

Terminal == {"completed", "failed"}

\* dict.get(key, default)
Get(d, key, default) == IF key \in DOMAIN d THEN d[key] ELSE default

\* CURRENT_TIMESTAMP of sqlite: UTC, 'YYYY-MM-DD HH:MM:SS'
SqlTimestamp(t) == [fmt |-> "sqlite", t |-> t]

\* datetime.now().isoformat(): local time, 'YYYY-MM-DDTHH:MM:SS.ffffff'
IsoTimestamp(t) == [fmt |-> "iso", t |-> t]

(***************************************************************************)
(* TodoManager                                                             *)
(***************************************************************************)
\* Todo(title=title): the defaults of the model class
Todo(title) ==
  [id |-> 0, title |-> title, description |-> "", completed |-> FALSE,
   priority |-> "medium", created_at |-> IsoTimestamp(0), updated_at |-> IsoTimestamp(0)]

\* create_todo on a table whose id is INTEGER PRIMARY KEY without AUTOINCREMENT:
\* the new id is one more than the greatest id in the table
CreateTodo_MaxRowid(rows, seq, todo, t) ==
  LET used == {rows[i].id : i \in 1..Len(rows)}
      id == IF used = {} THEN 1 ELSE (CHOOSE m \in used : \A n \in used : n <= m) + 1
      row == [id |-> id, title |-> todo.title, description |-> todo.description,
              completed |-> todo.completed, priority |-> todo.priority,
              created_at |-> SqlTimestamp(t), updated_at |-> SqlTimestamp(t)]
  IN [todos |-> Append(rows, row),
      todoSeq |-> IF id > seq THEN id ELSE seq,
      todo |-> [todo EXCEPT !.id = id, !.created_at = IsoTimestamp(t),
                            !.updated_at = IsoTimestamp(t)]]

\* create_todo: the stored row, and the Todo it returns
CreateTodo(rows, seq, todo, t) ==
  LET id == seq + 1
      row == [id |-> id, title |-> todo.title, description |-> todo.description,
              completed |-> todo.completed, priority |-> todo.priority,
              created_at |-> SqlTimestamp(t), updated_at |-> SqlTimestamp(t)]
  IN [todos |-> Append(rows, row),
      todoSeq |-> id,
      todo |-> [todo EXCEPT !.id = id, !.created_at = IsoTimestamp(t),
                            !.updated_at = IsoTimestamp(t)]]

\* ORDER BY created_at DESC of the rows; rows of one second keep their rowid order
RECURSIVE OrderByCreatedDesc(_)
OrderByCreatedDesc(rows) ==
  IF rows = <<>> THEN <<>>
  ELSE LET i == CHOOSE i \in 1..Len(rows) :
                  \A j \in 1..Len(rows) :
                     \/ rows[j].created_at.t < rows[i].created_at.t
                     \/ rows[j].created_at.t = rows[i].created_at.t /\ i <= j
       IN <<rows[i]>> \o
          OrderByCreatedDesc(SubSeq(rows, 1, i - 1) \o SubSeq(rows, i + 1, Len(rows)))

\* get_todos
GetTodos(rows) == OrderByCreatedDesc(rows)

\* the columns of table todos
TodoColumns ==
  {"id", "title", "description", "completed", "priority", "created_at", "updated_at"}

\* update_todo with the mapping updates: the rows after it, and the row it
\* returns.  The UPDATE sets the keys of the mapping and then updated_at (of a
\* column assigned twice sqlite keeps the rightmost assignment).  It raises, and
\* nothing is committed, when the mapping is empty or has a key that is no column
\* (the statement does not compile), and when it moves the row to another id
\* (the SELECT by the old id then finds no row, or the new id is taken).
UpdateTodo(rows, todo_id, updates, t) ==
  LET hit == {i \in 1..Len(rows) : rows[i].id = todo_id}
      upd(row) == [f \in DOMAIN row |->
                     IF f = "updated_at" THEN SqlTimestamp(t)
                     ELSE IF f \in DOMAIN updates THEN updates[f]
                     ELSE row[f]]
      rows2 == [i \in 1..Len(rows) |-> IF i \in hit THEN upd(rows[i]) ELSE rows[i]]
      raised == \/ DOMAIN updates = {}
                \/ ~(DOMAIN updates \subseteq TodoColumns)
                \/ hit # {} /\ "id" \in DOMAIN updates /\ updates["id"] # todo_id
  IN [raised |-> raised,
      found |-> ~raised /\ hit # {},
      todos |-> IF raised THEN rows ELSE rows2,
      todo |-> IF ~raised /\ hit # {} THEN rows2[CHOOSE i \in hit : TRUE] ELSE Todo("")]

\* delete_todo
DeleteTodo(rows, todo_id) ==
  LET keep == {i \in 1..Len(rows) : rows[i].id # todo_id}
      RECURSIVE Sel(_)
      Sel(i) == IF i > Len(rows) THEN <<>>
                ELSE (IF i \in keep THEN <<rows[i]>> ELSE <<>>) \o Sel(i + 1)
  IN [success |-> Cardinality(keep) < Len(rows), todos |-> Sel(1)]

(***************************************************************************)
(* ChatManager                                                             *)
(***************************************************************************)
\* add_message with the new message put at the head of conversation_history
AddMessage_Prepend(log, hist, role, content) ==
  LET message == [id |-> Len(log) + 1, role |-> role, content |-> content]
      appended == <<message>> \o hist
  IN [chatLog |-> Append(log, message),
      history |-> IF Len(appended) > max_history THEN Tail(appended) ELSE appended,
      message |-> message]

\* add_message trimming with pop() instead of pop(0): the newest message goes
AddMessage_DropsNewest(log, hist, role, content) ==
  LET message == [id |-> Len(log) + 1, role |-> role, content |-> content]
      appended == Append(hist, message)
  IN [chatLog |-> Append(log, message),
      history |-> IF Len(appended) > max_history
                  THEN SubSeq(appended, 1, Len(appended) - 1)
                  ELSE appended,
      message |-> message]

\* add_message: the INSERT, then the append to conversation_history and its trim
AddMessage(log, hist, role, content) ==
  LET message == [id |-> Len(log) + 1, role |-> role, content |-> content]
      appended == Append(hist, message)
  IN [chatLog |-> Append(log, message),
      history |-> IF Len(appended) > max_history THEN Tail(appended) ELSE appended,
      message |-> message]

(***************************************************************************)
(* AgentExecutor                                                           *)
(***************************************************************************)
NoHandle == [id |-> 0, action_type |-> "", description |-> "", status |-> "", result |-> ""]

\* execute_action with an INSERT that leaves status to the column default
ExecuteAction_Pending(acts, tsks, action_type, description, params) ==
  LET id == Len(acts) + 1
      action == [id |-> id, action_type |-> action_type,
                 description |-> description, status |-> "pending", result |-> ""]
  IN [actions |-> Append(acts, action),
      tasks |-> Append(tsks, [pc |-> "scheduled", params |-> params, nupd |-> 0,
                              failure |-> FALSE]),
      handle |-> [action EXCEPT !.status = "running"]]

\* execute_action awaiting _execute_action_async instead of creating a task
ExecuteAction_AwaitsBody(acts, tsks, action_type, description, params) ==
  LET id == Len(acts) + 1
      action == [id |-> id, action_type |-> action_type,
                 description |-> description, status |-> "completed", result |-> "done"]
  IN [actions |-> Append(acts, action),
      tasks |-> Append(tsks, [pc |-> "done", params |-> params, nupd |-> 1,
                              failure |-> FALSE]),
      handle |-> [action EXCEPT !.status = "running", !.result = ""]]

\* execute_action: the INSERT with status 'running', the task created for
\* _execute_action_async (not yet started), and the AgentAction returned
ExecuteAction(acts, tsks, action_type, description, params) ==
  LET id == Len(acts) + 1
      action == [id |-> id, action_type |-> action_type,
                 description |-> description, status |-> "running", result |-> ""]
  IN [actions |-> Append(acts, action),
      tasks |-> Append(tsks, [pc |-> "scheduled", params |-> params, nupd |-> 0,
                              failure |-> FALSE]),
      handle |-> action]

\* _execute_command, given what the subprocess did
ExecuteCommand(command, env) ==
  IF env.ok
  THEN "Command: " \o command \o "\n"
       \o (IF env.out # "" THEN "Output:\n" \o env.out \o "\n" ELSE "")
       \o (IF env.err # "" THEN "Error:\n" \o env.err \o "\n" ELSE "")
       \o "Exit code: " \o IntToStr(env.code)
  ELSE "Command execution failed: " \o env.err

\* _execute_file_op, given what the file system did
ExecuteFileOp(params, env) ==
  LET operation == Get(params, "operation", "")
      file_path == Get(params, "file_path", "")
  IN IF operation \in {"read", "write", "append"} /\ ~env.ok
       THEN "File operation failed: " \o env.err
     ELSE IF operation = "read" THEN env.out
     ELSE IF operation = "write" THEN "File written successfully: " \o file_path
     ELSE IF operation = "append" THEN "Content appended to: " \o file_path
     ELSE "Unknown file operation: " \o operation

\* _execute_web_search
ExecuteWebSearch(query) ==
  "Search results for '" \o query \o "':\n1. Result 1\n2. Result 2\n3. Result 3"

\* _execute_xfce_action
ExecuteXfceAction(params) ==
  LET action == Get(params, "action", "")
  IN IF action = "screenshot" THEN "Screenshot taken and saved to /tmp/screenshot.png"
     ELSE IF action = "open_terminal" THEN "Terminal opened in XFCE desktop"
     ELSE IF action = "list_applications"
       THEN "XFCE Applications:\n- Firefox\n- Thunar\n- Terminal\n- Text Editor"
     ELSE "XFCE action '" \o action \o "' executed"

\* _update_action_status without the assignment to self.results
UpdateActionStatus_NoResults(acts, res, action_id, status, result) ==
  [actions |-> [i \in 1..Len(acts) |->
                  IF acts[i].id = action_id
                  THEN [acts[i] EXCEPT !.status = status, !.result = result]
                  ELSE acts[i]],
   results |-> res]

\* _update_action_status with an UPDATE that selects the running rows instead
\* of the row of action_id
UpdateActionStatus_EveryRunning(acts, res, action_id, status, result) ==
  [actions |-> [i \in 1..Len(acts) |->
                  IF acts[i].status = "running"
                  THEN [acts[i] EXCEPT !.status = status, !.result = result]
                  ELSE acts[i]],
   results |-> [i \in DOMAIN res \cup {action_id} |->
                  IF i = action_id THEN [status |-> status, result |-> result]
                  ELSE res[i]]]

\* _update_action_status: the UPDATE of the row, then the entry of results
UpdateActionStatus(acts, res, action_id, status, result) ==
  [actions |-> [i \in 1..Len(acts) |->
                  IF acts[i].id = action_id
                  THEN [acts[i] EXCEPT !.status = status, !.result = result]
                  ELSE acts[i]],
   results |-> [i \in DOMAIN res \cup {action_id} |->
                  IF i = action_id THEN [status |-> status, result |-> result]
                  ELSE res[i]]]

\* the body of the try of _execute_action_async raising for what it does not know
ActionBody_UnknownRaises(action, params, env) ==
  IF action.action_type = "command"
    THEN [raised |-> FALSE, value |-> ExecuteCommand(Get(params, "command", ""), env)]
  ELSE IF action.action_type = "file_operation"
    THEN [raised |-> Get(params, "operation", "") \notin {"read", "write", "append"},
          value |-> ExecuteFileOp(params, env)]
  ELSE IF action.action_type = "web_search"
    THEN [raised |-> FALSE, value |-> ExecuteWebSearch(Get(params, "query", ""))]
  ELSE IF action.action_type = "xfce_action"
    THEN [raised |-> FALSE, value |-> ExecuteXfceAction(params)]
  ELSE [raised |-> TRUE, value |-> "Unknown action type: " \o action.action_type]

\* the body of the try of _execute_action_async: the result, or the exception
ActionBody(action, params, env) ==
  IF action.action_type = "command"
    THEN [raised |-> FALSE, value |-> ExecuteCommand(Get(params, "command", ""), env)]
  ELSE IF action.action_type = "file_operation"
    THEN [raised |-> FALSE, value |-> ExecuteFileOp(params, env)]
  ELSE IF action.action_type = "web_search"
    THEN [raised |-> FALSE, value |-> ExecuteWebSearch(Get(params, "query", ""))]
  ELSE IF action.action_type = "xfce_action"
    THEN [raised |-> FALSE, value |-> ExecuteXfceAction(params)]
  ELSE [raised |-> FALSE, value |-> "Unknown action type: " \o action.action_type]

\* _execute_action_async without its except: a failure of the body ends the
\* task and nothing is recorded
ExecuteActionAsync_LosesFailure(acts, res, action, params, env) ==
  LET body == ActionBody(action, params, env)
  IN IF env.ok
     THEN UpdateActionStatus(acts, res, action.id, "completed", body.value)
     ELSE [actions |-> acts, results |-> res]

\* _execute_action_async: try the body and record 'completed'; except, 'failed'
ExecuteActionAsync(acts, res, action, params, env) ==
  LET body == ActionBody(action, params, env)
  IN IF ~body.raised
     THEN UpdateActionStatus(acts, res, action.id, "completed", body.value)
     ELSE UpdateActionStatus(acts, res, action.id, "failed", body.value)

(***************************************************************************)
(* MCP services: one HTTP call each.  A reply is what the remote service   *)
(* did: kind "ok" (status 200, with the JSON object payload), kind "http"  *)
(* (another status) or kind "exc" (the request raised err).                *)
(***************************************************************************)
\* the try/except of every MCP client method (e.g. MCPTimeClient.get_current_time)
ClientResult(reply) ==
  IF reply.kind = "ok" THEN reply.payload
  ELSE IF reply.kind = "http" THEN [error |-> "HTTP " \o IntToStr(reply.status)]
  ELSE [error |-> reply.err]

\* MCPServices.get_current_time without its test of the error marker
GetCurrentTime_NoErrorCheck(reply, timezone) ==
  LET result == ClientResult(reply)
  IN "[clock] Current time: " \o Get(result, "current_time", "Unknown time")
     \o " (" \o Get(result, "timezone", timezone) \o ")"

\* MCPServices.get_current_time
GetCurrentTime(reply, timezone) ==
  LET result == ClientResult(reply)
  IN IF "error" \in DOMAIN result THEN "Time service error: " \o result.error
     ELSE "[clock] Current time: " \o Get(result, "current_time", "Unknown time")
          \o " (" \o Get(result, "timezone", timezone) \o ")"

RECURSIVE NumberedSteps(_, _)
NumberedSteps(steps, i) ==
  IF i > Len(steps) THEN ""
  ELSE IntToStr(i) \o ". " \o steps[i] \o "\n" \o NumberedSteps(steps, i + 1)

\* MCPServices.think_about
ThinkAbout(reply, problem) ==
  LET result == ClientResult(reply)
      steps == Get(result, "steps", <<>>)
      conclusion == Get(result, "conclusion", "")
  IN IF "error" \in DOMAIN result THEN "Thinking service error: " \o result.error
     ELSE IF steps = <<>> THEN "No thinking steps available"
     ELSE "[think] **Thinking about: " \o problem \o "**\n\n" \o NumberedSteps(steps, 1)
          \o (IF conclusion # "" THEN "\n**Conclusion:** " \o conclusion ELSE "")

RECURSIVE SearchItems(_, _)
SearchItems(items, i) ==
  IF i > Len(items) \/ i > 5 THEN ""
  ELSE LET url == Get(items[i], "url", "")
           snippet == Get(items[i], "snippet", "No description")
       IN "**" \o IntToStr(i) \o ". " \o Get(items[i], "title", "No title") \o "**\n"
          \o (IF url # "" THEN "   [link] " \o url \o "\n" ELSE "")
          \o (IF snippet # "" THEN "   [memo] " \o snippet \o "\n" ELSE "")
          \o "\n" \o SearchItems(items, i + 1)

\* MCPServices.search_web
SearchWeb(reply, query) ==
  LET result == ClientResult(reply)
      items == Get(result, "results", <<>>)
  IN IF "error" \in DOMAIN result THEN "Search service error: " \o result.error
     ELSE IF items = <<>> THEN "No results found for '" \o query \o "'"
     ELSE "[search] **Search results for: " \o query \o "**\n\n" \o SearchItems(items, 1)

\* MCPServices.get_instant_answer
GetInstantAnswer(reply, query) ==
  LET result == ClientResult(reply)
      answer == Get(result, "answer", "")
  IN IF "error" \in DOMAIN result THEN "Search service error: " \o result.error
     ELSE IF answer = "" THEN "No instant answer found for '" \o query \o "'"
     ELSE "[idea] **Instant Answer:** " \o answer

\* MCPServices.take_web_screenshot
TakeWebScreenshot(reply, url) ==
  LET result == ClientResult(reply)
      screenshot_path == Get(result, "screenshot_path", "")
  IN IF "error" \in DOMAIN result THEN "Screenshot service error: " \o result.error
     ELSE IF screenshot_path # "" THEN "[camera] Screenshot saved: " \o screenshot_path
     ELSE "Screenshot taken but path not available"

(***************************************************************************)
(* ChatBot: the handlers.  A handler is given the message and the store    *)
(* st = [todos, todoSeq, actions, tasks] and gives back what it did: it    *)
(* returned resp ("return"), it raised ("raise"), or it is suspended in    *)
(* the call op(arg) of a remote service or of the desktop ("await").       *)
(***************************************************************************)
Return(resp, st) ==
  [kind |-> "return", resp |-> resp, st |-> st, op |-> "", arg |-> "",
   handle |-> NoHandle, handler |-> ""]

Raise(err, st) ==
  [kind |-> "raise", resp |-> err, st |-> st, op |-> "", arg |-> "",
   handle |-> NoHandle, handler |-> ""]

Await(op, arg, st) ==
  [kind |-> "await", resp |-> "", st |-> st, op |-> op, arg |-> arg,
   handle |-> NoHandle, handler |-> ""]

RECURSIVE TodoLines(_)
TodoLines(list) ==
  IF list = <<>> THEN ""
  ELSE (IF Head(list).completed THEN "[ok]" ELSE "[wait]") \o " " \o Head(list).title
       \o " (ID: " \o IntToStr(Head(list).id) \o ")\n" \o TodoLines(Tail(list))

\* _handle_todo_command
HandleTodoCommand(message, st, t) ==
  IF Contains(message, "add") \/ Contains(message, "create") THEN
    LET title == Strip(Remove(Remove(message, "add todo"), "create todo"))
        created == CreateTodo(st.todos, st.todoSeq, Todo(title), t)
    IN IF title = ""
       THEN Return("Please provide a todo title. Example: 'add todo buy groceries'", st)
       ELSE Return("[ok] Todo created: '" \o created.todo.title \o "' (ID: "
                     \o IntToStr(created.todo.id) \o ")",
                   [st EXCEPT !.todos = created.todos, !.todoSeq = created.todoSeq])
  ELSE IF Contains(message, "list") \/ Contains(message, "show") THEN
    LET list == GetTodos(st.todos)
    IN IF list = <<>>
       THEN Return("No todos found. Create one with 'add todo [title]'", st)
       ELSE Return("[memo] Your todos:\n" \o TodoLines(list), st)
  ELSE IF Contains(message, "complete") \/ Contains(message, "done") THEN
    LET number == FirstNumber(message)
        todo_id == IF TooLarge(number) THEN 0 ELSE ParseInt(number)
        updated == UpdateTodo(st.todos, todo_id, [completed |-> TRUE], t)
    IN IF number = ""
       THEN Return("Please specify a todo ID. Example: 'complete todo 1'", st)
       ELSE IF TooLarge(number)
       THEN Raise("Python int too large to convert to SQLite INTEGER", st)
       ELSE IF updated.found
       THEN Return("[ok] Todo completed: " \o updated.todo.title,
                   [st EXCEPT !.todos = updated.todos])
       ELSE Return("[x] Todo not found with ID: " \o IntToStr(todo_id), st)
  ELSE Return("Todo commands: add todo [title], list todos, complete todo [id]", st)

\* a handler's use of execute_action: the store after it, and the response
Dispatched(resp_head, st, action_type, description, params) ==
  LET ex == ExecuteAction(st.actions, st.tasks, action_type, description, params)
  IN [Return(resp_head \o " (ID: " \o IntToStr(ex.handle.id) \o ")",
             [st EXCEPT !.actions = ex.actions, !.tasks = ex.tasks])
        EXCEPT !.handle = ex.handle]

\* _handle_agent_command without the test for an empty command
HandleAgentCommand_NoCheck(message, st) ==
  IF Contains(message, "command") THEN
    LET command == Strip(Remove(Remove(message, "execute command"), "run command"))
    IN Dispatched("[run] Action started: Execute: " \o command, st,
                  "command", "Execute: " \o command, [command |-> command])
  ELSE IF Contains(message, "file") THEN
    Return("File operation commands: read file [path], write file [path] [content], append file [path] [content]", st)
  ELSE Return("Agent commands: execute command [command], file operations", st)

\* _handle_agent_command
HandleAgentCommand(message, st) ==
  IF Contains(message, "command") THEN
    LET command == Strip(Remove(Remove(message, "execute command"), "run command"))
    IN IF command = ""
       THEN Return("Please provide a command. Example: 'execute command ls -la'", st)
       ELSE Dispatched("[run] Action started: Execute: " \o command, st,
                       "command", "Execute: " \o command, [command |-> command])
  ELSE IF Contains(message, "file") THEN
    Return("File operation commands: read file [path], write file [path] [content], append file [path] [content]", st)
  ELSE Return("Agent commands: execute command [command], file operations", st)

\* _handle_xfce_command; take_screenshot and get_vnc_connection do not suspend,
\* start_xfce_session does (create_subprocess_shell)
HandleXfceCommand(message, st) ==
  IF Contains(message, "screenshot")
    THEN Return("[desktop] Screenshot saved to /tmp/screenshot.png", st)
  ELSE IF Contains(message, "vnc") \/ Contains(message, "connect")
    THEN Return("[desktop] VNC server running on localhost:5900\nUse VNC client to connect", st)
  ELSE IF Contains(message, "start") \/ Contains(message, "launch")
    THEN Await("start_xfce_session", "", st)
  ELSE Return("XFCE commands: screenshot, start desktop, show vnc connection", st)

\* _handle_web_command asking the remote search service instead of the runner
HandleWebCommand_Remote(message, st) ==
  IF Contains(message, "search") THEN
    LET query == Strip(Remove(message, "search"))
    IN IF query = ""
       THEN Return("Please provide a search query. Example: 'search python tutorials'", st)
       ELSE Await("search_web", query, st)
  ELSE Return("Web commands: search [query]", st)

\* _handle_web_command
HandleWebCommand(message, st) ==
  IF Contains(message, "search") THEN
    LET query == Strip(Remove(message, "search"))
    IN IF query = ""
       THEN Return("Please provide a search query. Example: 'search python tutorials'", st)
       ELSE Dispatched("[search] Search started: " \o query, st,
                       "web_search", "Search: " \o query, [query |-> query])
  ELSE Return("Web commands: search [query]", st)

\* _handle_general_chat: building the dict responses evaluates self.vnc_port, an
\* attribute ChatBot does not have (XFCEController has it), before any lookup
HandleGeneralChat(message, st) ==
  Raise("'ChatBot' object has no attribute 'vnc_port'", st)

TimezoneWords == <<"utc", "est", "pst", "gmt", "jst", "cet">>

QuestionPhrases == <<"what is", "how many", "when did", "where is", "who is">>

\* the first element of the list ps that is in the set good, or "" when there is
\* none (for p in ps: if p passes the test: ...; break)
FirstIn(ps, good) ==
  LET hits == {i \in 1..Len(ps) : ps[i] \in good}
  IN IF hits = {} THEN "" ELSE ps[CHOOSE i \in hits : \A j \in hits : i <= j]

\* _handle_mcp_command
HandleMcpCommand(message, st) ==
  LET message_lower == Lower(message)
  IN IF ContainsAny(message_lower, {"time", "date", "clock"}) THEN
       LET tz == FirstIn(TimezoneWords,
                         {w \in {TimezoneWords[i] : i \in 1..Len(TimezoneWords)} :
                             Contains(message_lower, w)})
       IN Await("get_current_time", IF tz = "" THEN "UTC" ELSE Upper(tz), st)
     ELSE IF ContainsAny(message_lower, {"think", "analyze", "reason", "reasoning", "solve"}) THEN
       LET problem == Strip(Remove(Remove(Remove(message, "think about"), "analyze"),
                                   "reason about"))
       IN Await("think_about", IF problem = "" THEN "the current situation" ELSE problem, st)
     ELSE IF /\ Contains(message_lower, "screenshot")
             /\ ContainsAny(message_lower, {"web", "page", "website"}) THEN
       LET url == FirstUrl(message)
       IN IF url # "" THEN Await("take_web_screenshot", url, st)
          ELSE Return("Please provide a valid URL for screenshot. Example: 'screenshot website https://example.com'", st)
     ELSE IF ContainsAny(message_lower,
                         {"what is", "how many", "when did", "where is", "who is"}) THEN
       LET prefix == FirstIn(QuestionPhrases,
                             {w \in {QuestionPhrases[i] : i \in 1..Len(QuestionPhrases)} :
                                 StartsWith(Lower(message), w)})
           query == IF prefix = "" THEN message ELSE Strip(Drop(message, Len(prefix)))
       IN IF query # "" THEN Await("get_instant_answer", query, st)
          ELSE Return("Please provide a clear question. Example: 'what is python'", st)
     ELSE IF Contains(message_lower, "search") THEN
       LET query == Strip(Remove(Remove(message, "search"), "search for"))
       IN IF query = ""
          THEN Return("Please provide a search query. Example: 'search python tutorials'", st)
          ELSE Await("search_web", query, st)
     ELSE Return("MCP commands: time [timezone], think about [problem], screenshot web [url], what is [question], search [query]", st)

\* the rest of a suspended handler, once the awaited call has answered with reply
Resumed(op, arg, reply) ==
  IF op = "get_current_time" THEN GetCurrentTime(reply, arg)
  ELSE IF op = "think_about" THEN ThinkAbout(reply, arg)
  ELSE IF op = "take_web_screenshot" THEN TakeWebScreenshot(reply, arg)
  ELSE IF op = "get_instant_answer" THEN GetInstantAnswer(reply, arg)
  ELSE IF op = "search_web" THEN SearchWeb(reply, arg)
  ELSE IF reply.kind = "ok" THEN "[desktop] XFCE desktop session started"
  ELSE "[x] Failed to start XFCE session"

\* the if/elif chain of process_message on the message as typed, without lower()
Tier_NoLower(message) ==
  IF Contains(message, "todo") \/ Contains(message, "task") THEN "todo"
  ELSE IF Contains(message, "execute") \/ Contains(message, "run") THEN "agent"
  ELSE IF \/ Contains(message, "desktop")
          \/ Contains(message, "screenshot")
          \/ Contains(message, "xfce") THEN "desktop"
  ELSE IF Contains(message, "search") \/ Contains(message, "browse") THEN "web"
  ELSE IF ContainsAny(message, {"time", "current time", "date", "think",
                                "analyze", "reason", "screenshot"}) THEN "mcp"
  ELSE "general"

\* process_message testing the keywords of the remote-service tier before those
\* of the desktop and web tiers
Tier_McpFirst(message) ==
  LET message_lower == Lower(message)
  IN IF Contains(message_lower, "todo") \/ Contains(message_lower, "task") THEN "todo"
     ELSE IF Contains(message_lower, "execute") \/ Contains(message_lower, "run") THEN "agent"
     ELSE IF ContainsAny(message_lower, {"time", "current time", "date", "think",
                                         "analyze", "reason", "screenshot"}) THEN "mcp"
     ELSE IF \/ Contains(message_lower, "desktop")
             \/ Contains(message_lower, "screenshot")
             \/ Contains(message_lower, "xfce") THEN "desktop"
     ELSE IF Contains(message_lower, "search") \/ Contains(message_lower, "browse") THEN "web"
     ELSE "general"

\* the tier process_message selects, by its if/elif chain on message.lower()
Tier(message) ==
  LET message_lower == Lower(message)
  IN IF Contains(message_lower, "todo") \/ Contains(message_lower, "task") THEN "todo"
     ELSE IF Contains(message_lower, "execute") \/ Contains(message_lower, "run") THEN "agent"
     ELSE IF \/ Contains(message_lower, "desktop")
             \/ Contains(message_lower, "screenshot")
             \/ Contains(message_lower, "xfce") THEN "desktop"
     ELSE IF Contains(message_lower, "search") \/ Contains(message_lower, "browse") THEN "web"
     ELSE IF ContainsAny(message_lower, {"time", "current time", "date", "think",
                                         "analyze", "reason", "screenshot"}) THEN "mcp"
     ELSE "general"

\* the call of a handler: what the handler did, marked with the handler's name
Invoked(handler, out) == [out EXCEPT !.handler = handler]

\* process_message after add_message: the handler of the tier, on the raw message
Handle(message, st, t) ==
  LET tier == Tier(message)
  IN IF tier = "todo" THEN Invoked("_handle_todo_command", HandleTodoCommand(message, st, t))
     ELSE IF tier = "agent" THEN Invoked("_handle_agent_command", HandleAgentCommand(message, st))
     ELSE IF tier = "desktop" THEN Invoked("_handle_xfce_command", HandleXfceCommand(message, st))
     ELSE IF tier = "web" THEN Invoked("_handle_web_command", HandleWebCommand(message, st))
     ELSE IF tier = "mcp" THEN Invoked("_handle_mcp_command", HandleMcpCommand(message, st))
     ELSE Invoked("_handle_general_chat", HandleGeneralChat(message, st))

(***************************************************************************)
(* Inputs                                                                  *)
(***************************************************************************)
\* the messages the clients send
Msgs ==
  {"add todo buy milk", "execute command ls", "what time is it", "hello"}

\* what a subprocess does: it cannot be spawned, or it runs and exits
CommandEnvs ==
  {[ok |-> FALSE, out |-> "", err |-> "[Errno 2] No such file or directory", code |-> 0],
   [ok |-> TRUE, out |-> "a.txt\n", err |-> "", code |-> 0],
   [ok |-> TRUE, out |-> "", err |-> "ls: not found\n", code |-> 127]}

\* what the file system does: the operation fails, or it succeeds
FileEnvs ==
  {[ok |-> FALSE, out |-> "", err |-> "[Errno 2] No such file or directory: '/tmp/a'", code |-> 0],
   [ok |-> TRUE, out |-> "data", err |-> "", code |-> 0]}

NoEnv == [ok |-> TRUE, out |-> "", err |-> "", code |-> 0]

\* no answer yet
NoReply == [kind |-> "none", status |-> 0, err |-> "", payload |-> <<>>]

\* what a remote service answers: it cannot be reached, the request times out
\* (asyncio.TimeoutError, whose str() is empty), it answers with another status
\* than 200, or with 200 and a JSON object
Replies(op) ==
  {[kind |-> "exc", status |-> 0, err |-> "Cannot connect to host localhost", payload |-> <<>>],
   [kind |-> "exc", status |-> 0, err |-> "", payload |-> <<>>],
   [kind |-> "http", status |-> 500, err |-> "", payload |-> <<>>],
   [kind |-> "ok", status |-> 200, err |-> "", payload |-> <<>>]}
  \cup
  (IF op = "get_current_time"
     THEN {[kind |-> "ok", status |-> 200, err |-> "",
            payload |-> [current_time |-> "12:00:00", timezone |-> "UTC"]]}
   ELSE IF op = "think_about"
     THEN {[kind |-> "ok", status |-> 200, err |-> "",
            payload |-> [steps |-> <<"Look", "Decide">>, conclusion |-> "Done"]]}
   ELSE IF op = "take_web_screenshot"
     THEN {[kind |-> "ok", status |-> 200, err |-> "",
            payload |-> [screenshot_path |-> "/tmp/web.png"]]}
   ELSE IF op = "get_instant_answer"
     THEN {[kind |-> "ok", status |-> 200, err |-> "", payload |-> [answer |-> "42"]]}
   ELSE IF op = "search_web"
     THEN {[kind |-> "ok", status |-> 200, err |-> "",
            payload |-> [results |-> <<[title |-> "T", url |-> "http://t", snippet |-> "S"]>>]]}
   ELSE {})

\* the uses of execute_action: by the handlers of the chat, by POST
\* /api/xfce/action, and with the kinds nothing in the repository dispatches
DispatchInputs ==
  {[action_type |-> "command", description |-> "Execute: ls", params |-> [command |-> "ls"]],
   [action_type |-> "web_search", description |-> "Search: cats", params |-> [query |-> "cats"]],
   [action_type |-> "xfce_action", description |-> "XFCE: screenshot",
    params |-> [action |-> "screenshot"]],
   [action_type |-> "file_operation", description |-> "Read: /tmp/a",
    params |-> [operation |-> "read", file_path |-> "/tmp/a"]],
   [action_type |-> "file_operation", description |-> "Delete: /tmp/a",
    params |-> [operation |-> "delete", file_path |-> "/tmp/a"]],
   [action_type |-> "email", description |-> "Send mail", params |-> <<>>]}

(***************************************************************************)
(* Init and the actions                                                    *)
(***************************************************************************)
\* the state after construction, the database file holding the todos `rows`, with
\* `seq` the greatest id the table has given out, and the chat log `log`
InitStore(rows, seq, log) ==
  /\ todos = rows
  /\ todoSeq = seq
  /\ chatLog = log
  /\ history = <<>>
  /\ actions = <<>>
  /\ results = <<>>
  /\ tasks = <<>>
  /\ conns = [c \in Conns |-> [pc |-> "new", call |-> 0, op |-> "", arg |-> ""]]
  /\ active = <<>>
  /\ calls = <<>>
  /\ sent = [c \in Conns |-> <<>>]
  /\ now = 0
  /\ http = <<>>

InitWith(log) == InitStore(<<>>, 0, log)

\* the first start: init_database creates the tables, empty
Init == InitWith(<<>>)

\* the chat log an earlier run of the program has left in the database file
OldLog(n) == [i \in 1..n |-> [id |-> i, role |-> "user", content |-> "hi todo"]]

\* a later start: CREATE TABLE IF NOT EXISTS keeps the rows of the earlier runs,
\* and conversation_history starts empty
InitHist == \E n \in 0..MaxOld : InitWith(OldLog(n))

\* list.remove(x) when x is in the list: the first occurrence
RemoveFirst(list, x) ==
  IF \E i \in 1..Len(list) : list[i] = x
  THEN LET i == CHOOSE i \in 1..Len(list) :
                  list[i] = x /\ \A j \in 1..(i - 1) : list[j] # x
       IN SubSeq(list, 1, i - 1) \o SubSeq(list, i + 1, Len(list))
  ELSE list

\* WebSocketManager.disconnect emptying the list of connections
Disconnected_Clears(list, c) == <<>>

\* WebSocketManager.disconnect
Disconnected(list, c) == RemoveFirst(list, c)

\* websocket_endpoint: ws_manager.connect
Connect(c) ==
  /\ conns[c].pc = "new"
  /\ conns' = [conns EXCEPT ![c].pc = "recv"]
  /\ active' = Append(active, c)
  /\ UNCHANGED <<todos, todoSeq, chatLog, history, actions, results, tasks, calls, sent, now, http>>

\* process_message calling add_message after the handler, so that a handler
\* that raises leaves no message
Receive_HandlerFirst(c, message) ==
  \E added \in {AddMessage(chatLog, history, "user", message)} :
  \E out \in {Handle(message, [todos |-> todos, todoSeq |-> todoSeq,
                               actions |-> actions, tasks |-> tasks], now)} :
     /\ conns[c].pc = "recv"
     /\ Len(out.st.actions) <= MaxActions
     /\ chatLog' = IF out.kind = "raise" THEN chatLog ELSE added.chatLog
     /\ history' = IF out.kind = "raise" THEN history ELSE added.history
     /\ todos' = out.st.todos
     /\ todoSeq' = out.st.todoSeq
     /\ actions' = out.st.actions
     /\ tasks' = out.st.tasks
     /\ calls' = Append(calls, [conn |-> c, msg |-> message, handler |-> out.handler,
                                kind |-> out.kind, resp |-> out.resp, handle |-> out.handle,
                                op |-> out.op, arg |-> out.arg,
                                before |-> todos, after |-> out.st.todos,
                                reply |-> NoReply,
                                requests |-> IF out.kind = "await" /\ out.op # "start_xfce_session"
                                             THEN 1 ELSE 0])
     /\ conns' = [conns EXCEPT ![c] =
                    IF out.kind = "return"
                      THEN [pc |-> "send", call |-> Len(calls) + 1, op |-> "", arg |-> ""]
                    ELSE IF out.kind = "await"
                      THEN [pc |-> "await", call |-> Len(calls) + 1, op |-> out.op, arg |-> out.arg]
                    ELSE [pc |-> "closed", call |-> Len(calls) + 1, op |-> "", arg |-> ""]]
     /\ active' = IF out.kind = "raise" THEN Disconnected(active, c) ELSE active
     /\ UNCHANGED <<results, sent, now, http>>

\* websocket_endpoint: receive_text has returned message, and process_message
\* runs: add_message, then the handler, up to its return, its exception (which
\* the except of websocket_endpoint turns into a disconnect) or its first
\* suspension
Receive(c, message) ==
  \E added \in {AddMessage(chatLog, history, "user", message)} :
  \E out \in {Handle(message, [todos |-> todos, todoSeq |-> todoSeq,
                               actions |-> actions, tasks |-> tasks], now)} :
     /\ conns[c].pc = "recv"
     /\ Len(out.st.actions) <= MaxActions
     /\ chatLog' = added.chatLog
     /\ history' = added.history
     /\ todos' = out.st.todos
     /\ todoSeq' = out.st.todoSeq
     /\ actions' = out.st.actions
     /\ tasks' = out.st.tasks
     /\ calls' = Append(calls, [conn |-> c, msg |-> message, handler |-> out.handler,
                                kind |-> out.kind, resp |-> out.resp, handle |-> out.handle,
                                op |-> out.op, arg |-> out.arg,
                                before |-> todos, after |-> out.st.todos,
                                reply |-> NoReply,
                                requests |-> IF out.kind = "await" /\ out.op # "start_xfce_session"
                                             THEN 1 ELSE 0])
     /\ conns' = [conns EXCEPT ![c] =
                    IF out.kind = "return"
                      THEN [pc |-> "send", call |-> Len(calls) + 1, op |-> "", arg |-> ""]
                    ELSE IF out.kind = "await"
                      THEN [pc |-> "await", call |-> Len(calls) + 1, op |-> out.op, arg |-> out.arg]
                    ELSE [pc |-> "closed", call |-> Len(calls) + 1, op |-> "", arg |-> ""]]
     /\ active' = IF out.kind = "raise" THEN Disconnected(active, c) ELSE active
     /\ UNCHANGED <<results, sent, now, http>>

\* the call a handler awaits answers, and the handler returns its response
Resume(c, reply) ==
  /\ conns[c].pc = "await"
  /\ calls' = [calls EXCEPT ![conns[c].call].kind = "return",
                            ![conns[c].call].reply = reply,
                            ![conns[c].call].resp = Resumed(conns[c].op, conns[c].arg, reply)]
  /\ conns' = [conns EXCEPT ![c] = [pc |-> "send", call |-> conns[c].call, op |-> "", arg |-> ""]]
  /\ UNCHANGED <<todos, todoSeq, chatLog, history, actions, results, tasks, active, sent, now, http>>

\* websocket_endpoint sending the response with broadcast instead of send_text
Send_Broadcast(c) ==
  /\ conns[c].pc = "send"
  /\ sent' = [d \in Conns |->
                IF \E i \in 1..Len(active) : active[i] = d
                THEN Append(sent[d], calls[conns[c].call].resp)
                ELSE sent[d]]
  /\ conns' = [conns EXCEPT ![c].pc = "recv"]
  /\ UNCHANGED <<todos, todoSeq, chatLog, history, actions, results, tasks, active, calls, now, http>>

\* websocket_endpoint: send_text(response), and back to receive_text
Send(c) ==
  /\ conns[c].pc = "send"
  /\ sent' = [sent EXCEPT ![c] = Append(@, calls[conns[c].call].resp)]
  /\ conns' = [conns EXCEPT ![c].pc = "recv"]
  /\ UNCHANGED <<todos, todoSeq, chatLog, history, actions, results, tasks, active, calls, now, http>>

\* the client has gone: receive_text or send_text raises, and the except of
\* websocket_endpoint disconnects
Close(c) ==
  /\ conns[c].pc \in {"recv", "send"}
  /\ conns' = [conns EXCEPT ![c].pc = "closed"]
  /\ active' = Disconnected(active, c)
  /\ UNCHANGED <<todos, todoSeq, chatLog, history, actions, results, tasks, calls, sent, now, http>>

\* a direct call of execute_action
Dispatch(d) ==
  \E ex \in {ExecuteAction(actions, tasks, d.action_type, d.description, d.params)} :
     /\ actions' = ex.actions
     /\ tasks' = ex.tasks
     /\ UNCHANGED <<todos, todoSeq, chatLog, history, results, conns, active, calls, sent, now, http>>

\* the bodies that suspend: the subprocess of a command, the sleep of a web search
Suspends(action_type) == action_type \in {"command", "web_search"}

\* whether the body of the action failed, given what its environment did
BodyFailed(action, params, env) ==
  \/ action.action_type = "command" /\ ~env.ok
  \/ /\ action.action_type = "file_operation"
     /\ Get(params, "operation", "") \in {"read", "write", "append"}
     /\ ~env.ok

\* the task runs _execute_action_async to its end and records the result
Finished(id, env) ==
  \E done \in {ExecuteActionAsync(actions, results, actions[id], tasks[id].params, env)} :
     /\ actions' = done.actions
     /\ results' = done.results
     /\ tasks' = [tasks EXCEPT ![id].pc = "done", ![id].nupd = @ + 1,
                               ![id].failure = BodyFailed(actions[id], tasks[id].params, env)]

\* the event loop starts the task of action id: it runs up to the await of its
\* body that suspends, or to its end when the body does not suspend
TaskStart(id, env) ==
  /\ id \in 1..Len(tasks)
  /\ tasks[id].pc = "scheduled"
  /\ IF Suspends(actions[id].action_type)
     THEN /\ env = NoEnv
          /\ tasks' = [tasks EXCEPT ![id].pc = "running"]
          /\ UNCHANGED <<actions, results, http>>
     ELSE /\ env \in (IF actions[id].action_type = "file_operation" THEN FileEnvs ELSE {NoEnv})
          /\ Finished(id, env)
  /\ UNCHANGED <<todos, todoSeq, chatLog, history, conns, active, calls, sent, now, http>>

\* the suspended body of action id ends, and the task records the result
TaskFinish(id, env) ==
  /\ id \in 1..Len(tasks)
  /\ tasks[id].pc = "running"
  /\ env \in (IF actions[id].action_type = "command" THEN CommandEnvs ELSE {NoEnv})
  /\ Finished(id, env)
  /\ UNCHANGED <<todos, todoSeq, chatLog, history, conns, active, calls, sent, now, http>>

Envs == CommandEnvs \cup FileEnvs \cup {NoEnv}

Next ==
  \/ \E c \in Conns : Connect(c)
  \/ \E c \in Conns, m \in Msgs : Len(calls) < MaxMsgs /\ Receive(c, m)
  \/ \E c \in Conns : \E reply \in Replies(conns[c].op) : Resume(c, reply)
  \/ \E c \in Conns : Send(c)
  \/ \E c \in Conns : Close(c)
  \/ \E id \in 1..MaxActions, env \in Envs : TaskStart(id, env)
  \/ \E id \in 1..MaxActions, env \in Envs : TaskFinish(id, env)

Spec == Init /\ [][Next]_vars

\* the runner alone: actions are dispatched and their tasks run
NextRunner ==
  \/ \E d \in DispatchInputs : Len(actions) < MaxActions /\ Dispatch(d)
  \/ \E id \in 1..MaxActions, env \in Envs : TaskStart(id, env)
  \/ \E id \in 1..MaxActions, env \in Envs : TaskFinish(id, env)

SpecRunner == Init /\ [][NextRunner]_vars

\* the router alone: one connection, one message drawn from the fragments
Frags ==
  <<"todo", "Task", "execute", "run", "desktop", "Screenshot", "xfce", "search",
    "browse", "time", "date", "think", "analyze", "reason", "hello", "status", "x", " ">>

RECURSIVE Concat(_)
Concat(ws) == IF ws = <<>> THEN "" ELSE Head(ws) \o Concat(Tail(ws))

\* the concatenations of n fragments
MsgsOfFrags(n) == {Concat([i \in 1..n |-> Frags[f[i]]]) : f \in [1..n -> 1..Len(Frags)]}

ClassMsgs == UNION {MsgsOfFrags(n) : n \in 0..MaxFrags}

NextClassify ==
  \/ \E c \in {"c1"} : Connect(c)
  \/ \E c \in {"c1"}, m \in ClassMsgs : Len(calls) < 1 /\ Receive(c, m)
  \/ \E c \in {"c1"} : \E reply \in Replies(conns[c].op) : Resume(c, reply)
  \/ \E c \in {"c1"} : Send(c)

SpecClassify == Init /\ [][NextClassify]_vars

\* the chat log alone: one connection sends the same harmless message again and again
NextHist ==
  \/ \E c \in {"c1"} : Connect(c)
  \/ \E c \in {"c1"} : Len(calls) < MaxHistMsgs /\ Receive(c, "list todos")
  \/ \E c \in {"c1"} : Send(c)

SpecHist == InitHist /\ [][NextHist]_vars

\* the todos an earlier run of the program has left in the database file
OldTodos(n) ==
  [i \in 1..n |-> [id |-> i, title |-> IF i = 1 THEN "buy milk" ELSE "call bob",
                   description |-> "", completed |-> FALSE, priority |-> "medium",
                   created_at |-> SqlTimestamp(0), updated_at |-> SqlTimestamp(0)]]

InitCmd == \E n \in 0..MaxOldTodos : InitStore(OldTodos(n), n, <<>>)

\* the commands of the chat, as a client types them
CmdMsgs ==
  {"screenshot website https://example.com", "take a screenshot",
   "add todo", " add todo ", "add todo create todo", "create todo  ", "todo add",
   "add todo buy milk", "Add Todo buy milk",
   "complete todo 1", "todo 2 is done", "complete todo 999", "complete todo",
   "complete todo 99999999999999999999",
   "what is python", "what is the date", "how many moons",
   "execute command ls", "Execute Command ls", "execute command", " run command  ",
   "search search ",
   "search python tutorials", "research papers", "search", "search the time",
   "what time is it in PST", "latest time"}

\* the commands alone: one connection sends commands to a store that holds the
\* todos of earlier runs
NextCmd ==
  \/ \E c \in {"c1"} : Connect(c)
  \/ \E c \in {"c1"}, m \in CmdMsgs : Len(calls) < MaxCmds /\ Receive(c, m)
  \/ \E c \in {"c1"} : \E reply \in Replies(conns[c].op) : Resume(c, reply)
  \/ \E c \in {"c1"} : Send(c)
  \/ \E id \in 1..MaxActions, env \in Envs : TaskStart(id, env)
  \/ \E id \in 1..MaxActions, env \in Envs : TaskFinish(id, env)

SpecCmd == InitCmd /\ [][NextCmd]_vars

\* a timestamp a client puts in the mapping of PUT /api/todos/{todo_id}
ClientTimestamp == [fmt |-> "client", t |-> MaxTime + 1]

\* the mappings a client gives to PUT /api/todos/{todo_id}
UpdateInputs ==
  {[completed |-> TRUE], [created_at |-> ClientTimestamp], [id |-> MaxTodos + 1],
   [colour |-> "red"], <<>>}

\* POST /api/todos
ApiCreateTodo(title) ==
  \E created \in {CreateTodo(todos, todoSeq, Todo(title), now)} :
     /\ todos' = created.todos
     /\ todoSeq' = created.todoSeq
     /\ UNCHANGED <<chatLog, history, actions, results, tasks, conns, active, calls, sent, now>>

\* PUT /api/todos/{todo_id}
ApiUpdateTodo(todo_id, updates) ==
  \E updated \in {UpdateTodo(todos, todo_id, updates, now)} :
     /\ todos' = updated.todos
     /\ UNCHANGED <<todoSeq, chatLog, history, actions, results, tasks, conns, active,
                    calls, sent, now>>

\* DELETE /api/todos/{todo_id}
ApiDeleteTodo(todo_id) ==
  \E deleted \in {DeleteTodo(todos, todo_id)} :
     /\ todos' = deleted.todos
     /\ UNCHANGED <<todoSeq, chatLog, history, actions, results, tasks, conns, active,
                    calls, sent, now>>

\* a second of the clock passes
Tick ==
  /\ now < MaxTime
  /\ now' = now + 1
  /\ UNCHANGED <<todos, todoSeq, chatLog, history, actions, results, tasks, conns, active,
                 calls, sent, http>>

\* the messages that create records
StoreMsgs == {"add todo buy milk", "execute command ls"}

\* the store: the REST API of the todos, and a connection whose messages create
\* todos, chat messages and actions
NextStore ==
  \/ \E title \in {"buy milk"} :
        todoSeq < MaxTodos /\ ApiCreateTodo(title) /\ UNCHANGED http
  \/ \E todo_id \in 1..MaxTodos, updates \in UpdateInputs :
        ApiUpdateTodo(todo_id, updates) /\ UNCHANGED http
  \/ \E todo_id \in 1..MaxTodos : ApiDeleteTodo(todo_id) /\ UNCHANGED http
  \/ Tick
  \/ \E c \in {"c1"} : Connect(c)
  \/ \E c \in {"c1"}, m \in StoreMsgs :
        todoSeq < MaxTodos /\ Len(calls) < MaxMsgs /\ Receive(c, m)
  \/ \E c \in {"c1"} : Send(c)

SpecStore == InitHist /\ [][NextStore]_vars

\* GET /api/todos with a listing that marks what it has listed
ApiGetTodos_Touches ==
  /\ todos' = [i \in 1..Len(todos) |-> [todos[i] EXCEPT !.updated_at = SqlTimestamp(now + 1)]]
  /\ UNCHANGED <<todoSeq, chatLog, history, actions, results, tasks, conns, active,
                 calls, sent, now>>

\* GET /api/todos
ApiGetTodos ==
  UNCHANGED <<todos, todoSeq, chatLog, history, actions, results, tasks, conns, active,
              calls, sent, now>>

\* the call of the REST API is on record with what it returned, and with the
\* todos before and after it
Responded(op, arg, result) ==
  http' = Append(http, [op |-> op, arg |-> arg, result |-> result,
                        before |-> todos, after |-> todos'])

\* what PUT /api/todos/{todo_id} returns: the todo, null, or an error
PutResult(updated) ==
  IF updated.raised THEN "500" ELSE IF updated.found THEN updated.todo ELSE "null"

\* the REST API of the todos, with the responses on record, and a connection
\* that lists and adds todos
ApiMsgs == {"list todos", "add todo call bob"}

NextApi ==
  \/ \E title \in {"buy milk"} :
        /\ todoSeq < MaxTodos /\ Len(http) < MaxApiCalls
        /\ ApiCreateTodo(title)
        /\ Responded("create_todo", title, CreateTodo(todos, todoSeq, Todo(title), now).todo)
  \/ /\ Len(http) < MaxApiCalls
     /\ ApiGetTodos
     /\ Responded("get_todos", "", GetTodos(todos))
  \/ \E todo_id \in 1..MaxTodos, updates \in UpdateInputs :
        /\ Len(http) < MaxApiCalls
        /\ ApiUpdateTodo(todo_id, updates)
        /\ Responded("update_todo", IntToStr(todo_id),
                     PutResult(UpdateTodo(todos, todo_id, updates, now)))
  \/ \E todo_id \in 1..MaxTodos :
        /\ Len(http) < MaxApiCalls
        /\ ApiDeleteTodo(todo_id)
        /\ Responded("delete_todo", IntToStr(todo_id),
                     IF DeleteTodo(todos, todo_id).success THEN "200" ELSE "404")
  \/ Tick
  \/ \E c \in {"c1"} : Connect(c)
  \/ \E c \in {"c1"}, m \in ApiMsgs :
        todoSeq < MaxTodos /\ Len(calls) < MaxMsgs /\ Receive(c, m)
  \/ \E c \in {"c1"} : Send(c)

SpecApi == Init /\ [][NextApi]_vars

\* the rows an earlier run of the program has left in agent_actions: an action
\* that ended, or one whose process was stopped while it ran
OldActions(n) ==
  {[i \in 1..n |-> [id |-> i, action_type |-> "command", description |-> "Execute: ls",
                    status |-> st[i],
                    result |-> IF st[i] = "completed"
                               THEN ExecuteCommand("ls", [ok |-> TRUE, out |-> "a.txt\n",
                                                          err |-> "", code |-> 0])
                               ELSE ""]] :
     st \in [1..n -> {"completed", "running"}]}

\* a later start on the database file of earlier runs: init_database keeps the
\* rows of agent_actions, AgentExecutor starts with results = {} and the tasks
\* of the earlier process are gone
InitRestart ==
  \E n \in 0..MaxOldActions : \E rows \in OldActions(n) :
     /\ actions = rows
     /\ tasks = [i \in 1..n |-> [pc |-> "gone", params |-> [command |-> "ls"],
                                 nupd |-> 0, failure |-> FALSE]]
     /\ results = <<>>
     /\ todos = <<>>
     /\ todoSeq = 0
     /\ chatLog = <<>>
     /\ history = <<>>
     /\ conns = [c \in Conns |-> [pc |-> "new", call |-> 0, op |-> "", arg |-> ""]]
     /\ active = <<>>
     /\ calls = <<>>
     /\ sent = [c \in Conns |-> <<>>]
     /\ now = 0
     /\ http = <<>>

\* the messages that dispatch an action
RestartMsgs == {"execute command ls", "search python tutorials"}

\* the chat dispatching actions, and the event loop running their tasks
NextRestart ==
  \/ \E c \in {"c1"} : Connect(c)
  \/ \E c \in {"c1"}, m \in RestartMsgs : Len(calls) < MaxMsgs /\ Receive(c, m)
  \/ \E c \in {"c1"} : Send(c)
  \/ \E id \in 1..MaxActions, env \in Envs : TaskStart(id, env)
  \/ \E id \in 1..MaxActions, env \in Envs : TaskFinish(id, env)

SpecRestart == InitRestart /\ [][NextRestart]_vars

\* the runner under the fairness of the event loop, which runs every task that
\* is ready, and with bodies that end
FairRunner ==
  /\ SpecRunner
  /\ \A id \in 1..MaxActions :
       /\ WF_vars(\E env \in Envs : TaskStart(id, env))
       /\ WF_vars(\E env \in Envs : TaskFinish(id, env))

(***************************************************************************)
(* The claims                                                              *)
(***************************************************************************)
Calls == 1..Len(calls)

Min(a, b) == IF a < b THEN a ELSE b

\* C1: every message submitted through process_message yields exactly one
\* non-empty response string, and no exception escapes from process_message.
C1_AlwaysOneResponse ==
  \A k \in Calls :
     /\ calls[k].kind # "raise"
     /\ calls[k].kind = "return" => calls[k].resp # ""

\* the tiers as the specification lists them, in their order, with their keywords
TierKeywords ==
  <<{"todo", "task"}, {"execute", "run"}, {"desktop", "screenshot", "xfce"},
    {"search", "browse"}, {"time", "date", "think", "analyze", "reason", "screenshot"}>>

TierHandlers ==
  <<"_handle_todo_command", "_handle_agent_command", "_handle_xfce_command",
    "_handle_web_command", "_handle_mcp_command">>

\* the tiers one of whose keywords occurs in the lower-cased message
Matching(message) ==
  {i \in 1..Len(TierKeywords) : \E kw \in TierKeywords[i] : Contains(Lower(message), kw)}

FirstMatch(message) ==
  IF Matching(message) = {} THEN "_handle_general_chat"
  ELSE TierHandlers[CHOOSE i \in Matching(message) : \A j \in Matching(message) : i <= j]

\* C2: for every message, process_message invokes exactly one handler: that of
\* the first tier, in the order todo, agent, desktop, web-search, remote-service,
\* one of whose keywords occurs in the lower-cased message, and the fallback
\* handler only when no keyword of any tier occurs.
C2_FirstMatchWins ==
  \A k \in Calls : calls[k].handler = FirstMatch(calls[k].msg)

\* C2's case: a message typed with capitals that matches two tiers has been routed
C2_Witness ==
  \E k \in Calls :
     /\ Cardinality(Matching(calls[k].msg)) >= 2
     /\ calls[k].msg # Lower(calls[k].msg)
     /\ calls[k].handler = "_handle_xfce_command"

\* C3: a message with none of the tier keywords goes to the fallback handler,
\* which never raises and returns an acknowledgment; without 'hello', 'help' and
\* 'status' in the message, the acknowledgment contains the message.
C3_FallbackAcknowledges ==
  \A k \in Calls :
     Matching(calls[k].msg) = {} =>
        /\ calls[k].handler = "_handle_general_chat"
        /\ calls[k].kind = "return"
        /\ calls[k].resp # ""
        /\ ~ContainsAny(Lower(calls[k].msg), {"hello", "help", "status"})
             => Contains(calls[k].resp, calls[k].msg)

Ids == 1..Len(actions)

\* C4: the stored status of an action is 'running' from its creation, never
\* 'pending'; it changes once, to 'completed' or 'failed', and the row of a
\* terminal action never changes again.
C4_StatusLifecycle ==
  /\ [](\A id \in Ids :
          /\ actions[id].status \in {"running"} \cup Terminal
          /\ actions[id].status = "running" <=> tasks[id].nupd = 0
          /\ actions[id].status \in Terminal <=> tasks[id].nupd = 1)
  /\ [][\A id \in Ids :
          /\ actions'[id].status # actions[id].status
               => actions[id].status = "running" /\ actions'[id].status \in Terminal
          /\ actions[id].status \in Terminal => actions'[id] = actions[id]]_vars

\* C4's case: an action has reached a terminal status by its one update
C4_Witness ==
  \E id \in Ids : actions[id].status \in Terminal /\ tasks[id].nupd = 1

\* C5: when the body of a 'command' or of a 'file_operation' action fails, the
\* stored status of the action becomes 'failed', not 'completed'.
C5_BodyFailureIsFailed ==
  \A id \in Ids :
     tasks[id].pc = "done" /\ tasks[id].failure => actions[id].status = "failed"

\* C6: under the fairness of the event loop and with bodies that end, every
\* dispatched action eventually has a terminal stored status.
C6_EventuallyTerminal ==
  \A id \in 1..MaxActions :
     [](Len(actions) >= id => <>(Len(actions) >= id /\ actions[id].status \in Terminal))

\* C6's case: a command, whose body suspends, has ended
C6_Witness ==
  \E id \in Ids :
     /\ actions[id].action_type = "command"
     /\ tasks[id].pc = "done"
     /\ actions[id].status \in Terminal

\* C7: the handle execute_action returns carries the identifier of a stored row
\* and status 'running'; when the response to the dispatching message is
\* produced, the body of the action has not run: the row is 'running' and its
\* task has not started.
C7_DispatchDoesNotWait ==
  /\ [](\A k \in Calls :
          calls[k].handle.id # 0 =>
             /\ calls[k].kind = "return"
             /\ calls[k].handle.id \in Ids
             /\ calls[k].handle.status = "running"
             /\ actions[calls[k].handle.id].action_type = calls[k].handle.action_type
             /\ actions[calls[k].handle.id].description = calls[k].handle.description)
  /\ [][Len(calls') > Len(calls) /\ calls'[Len(calls')].handle.id # 0 =>
          /\ calls'[Len(calls')].handle.id = Len(actions')
          /\ Len(actions') = Len(actions) + 1
          /\ actions'[Len(actions')].status = "running"
          /\ tasks'[Len(actions')].pc = "scheduled"]_vars

\* C7's case: a connection has had the response to its dispatching message and
\* to a later message while the body of the action is still suspended
C7_Witness ==
  \E c \in Conns : \E k1, k2 \in Calls :
     /\ k1 < k2
     /\ calls[k1].conn = c /\ calls[k2].conn = c
     /\ calls[k1].handle.id # 0
     /\ Len(sent[c]) = 2
     /\ actions[calls[k1].handle.id].status = "running"
     /\ tasks[calls[k1].handle.id].pc = "running"

\* C8: after process_message(t) has returned r, the chat log holds t as a
\* user-role message and r as an assistant-role message, in that order.
C8_PairPersisted ==
  \A k \in Calls :
     calls[k].kind = "return" =>
        \E i, j \in 1..Len(chatLog) :
           /\ i < j
           /\ chatLog[i].role = "user" /\ chatLog[i].content = calls[k].msg
           /\ chatLog[j].role = "assistant" /\ chatLog[j].content = calls[k].resp

\* the identifiers conversation_history has to hold: the last max_history of the log
Window ==
  (IF Len(chatLog) > max_history THEN Len(chatLog) - max_history + 1 ELSE 1)..Len(chatLog)

\* C9: with the calls of process_message of several connections interleaved,
\* the messages are in the durable log in the order of their arrival, and
\* conversation_history holds the messages of the window in the order of their
\* identifiers, none missing, none twice.
C9_ArrivalOrder ==
  /\ Len(chatLog) = Len(calls)
  /\ \A k \in Calls :
        /\ chatLog[k].id = k
        /\ chatLog[k].role = "user"
        /\ chatLog[k].content = calls[k].msg
  /\ \A i \in 1..Len(history) :
        history[i].id \in 1..Len(chatLog) /\ chatLog[history[i].id] = history[i]
  /\ \A i, j \in 1..Len(history) : i < j => history[i].id < history[j].id
  /\ {history[i].id : i \in 1..Len(history)} = Window

\* C9's case: the message of one connection has been answered between the
\* arrival of the message of another connection and its response
C9_Witness ==
  \E k1, k2 \in Calls :
     /\ k1 < k2
     /\ calls[k1].conn # calls[k2].conn
     /\ calls[k1].kind = "await"
     /\ calls[k2].kind = "return"
     /\ Len(history) = 2

\* C10: after n calls of add_message, conversation_history holds at most 50
\* messages, the most recent min(n, 50) messages of the durable log in the same
\* order, and the durable log holds all n of them, after those it held before.
C10_HistoryIsLogTail ==
  /\ Len(history) <= max_history
  /\ Len(history) = Min(Len(calls), max_history)
  /\ Len(chatLog) - Len(calls) \in 0..MaxOld
  /\ history = SubSeq(chatLog, Len(chatLog) - Len(history) + 1, Len(chatLog))
  /\ \A k \in Calls :
        chatLog[Len(chatLog) - Len(calls) + k] =
           [id |-> Len(chatLog) - Len(calls) + k, role |-> "user", content |-> calls[k].msg]
  /\ SubSeq(chatLog, 1, Len(chatLog) - Len(calls)) = OldLog(Len(chatLog) - Len(calls))

\* C10's case: more than 50 messages have been added, on top of an earlier log,
\* and the history is full
C10_Witness ==
  /\ Len(calls) > max_history
  /\ Len(chatLog) > Len(calls)
  /\ Len(history) = max_history
  /\ history[1].id = Len(chatLog) - max_history + 1

\* whether the message asks for a screenshot of a web page: 'screenshot' with
\* 'web', 'page' or 'website', and an http(s) URL
WebScreenshotMsg(message) ==
  /\ Contains(Lower(message), "screenshot")
  /\ ContainsAny(Lower(message), {"web", "page", "website"})
  /\ FirstUrl(message) # ""

\* C11: a message with 'screenshot', one of 'web', 'page', 'website' and an
\* http(s) URL invokes the remote web-screenshot operation with that URL, not
\* the desktop screenshot; the desktop handler takes 'screenshot' only without
\* 'web', 'page' and 'website'.
C11_WebScreenshotRouted ==
  \A k \in Calls :
     /\ WebScreenshotMsg(calls[k].msg) =>
          /\ calls[k].handler = "_handle_mcp_command"
          /\ calls[k].op = "take_web_screenshot"
          /\ calls[k].arg = FirstUrl(calls[k].msg)
     /\ calls[k].handler = "_handle_xfce_command" /\ Contains(Lower(calls[k].msg), "screenshot")
          => ~ContainsAny(Lower(calls[k].msg), {"web", "page", "website"})

\* whether the message is made of the command phrases 'add todo' and 'create
\* todo' and of white space only
RECURSIVE OnlyCommandWords(_)
OnlyCommandWords(message) ==
  IF message = "" THEN TRUE
  ELSE IF Head(message) \in WhiteSpace THEN OnlyCommandWords(Tail(message))
  ELSE IF StartsWith(message, "add todo") THEN OnlyCommandWords(Drop(message, 8))
  ELSE IF StartsWith(message, "create todo") THEN OnlyCommandWords(Drop(message, 11))
  ELSE FALSE

TitleGuidance == "Please provide a todo title. Example: 'add todo buy groceries'"

\* the call of process_message that a step has started, or 0
NewCall == IF Len(calls') = Len(calls) + 1 THEN Len(calls') ELSE 0

CompleteMsg(message) ==
  /\ Contains(Lower(message), "todo") \/ Contains(Lower(message), "task")
  /\ ~ContainsAny(message, {"add", "create", "list", "show"})
  /\ Contains(message, "complete") \/ Contains(message, "done")

\* the rows whose id the first run of digits of the message names
Named(rows, message) ==
  {i \in 1..Len(rows) : IntToStr(rows[i].id) = NoLeadingZeros(FirstNumber(message))}

\* what C13 says of the k-th call, a 'complete' message
CompleteOk(k) ==
  LET rows == calls[k].before
      hit == Named(rows, calls[k].msg)
  IN /\ calls[k].kind = "return"
     /\ Len(calls[k].after) = Len(rows)
     /\ \A i \in 1..Len(rows) :
           /\ calls[k].after[i].id = rows[i].id
           /\ calls[k].after[i].title = rows[i].title
           /\ calls[k].after[i].completed = (rows[i].completed \/ i \in hit)
           /\ i \notin hit => calls[k].after[i] = rows[i]
     /\ hit # {} => \E i \in hit : calls[k].resp = "[ok] Todo completed: " \o rows[i].title
     /\ hit = {} /\ FirstNumber(calls[k].msg) # ""
          => StartsWith(calls[k].resp, "[x] Todo not found")
     /\ FirstNumber(calls[k].msg) = ""
          => calls[k].resp = "Please specify a todo ID. Example: 'complete todo 1'"

\* C13: a 'complete' message whose first run of digits names an existing todo
\* completes that todo and no other, and the response confirms it with its
\* title; with the id of no todo the response is 'not found', with no digits it
\* is the guidance on the id, and in both cases the todos are unchanged.
C13_CompleteTodo == \A k \in Calls : CompleteMsg(calls[k].msg) => CompleteOk(k)

\* whether a keyword of the tiers before the remote services is in the message
HigherTier(message) ==
  ContainsAny(Lower(message), {"todo", "task", "execute", "run", "desktop",
                               "screenshot", "xfce", "search", "browse"})

\* the question phrases the message starts with
Leading(message) == {ph \in {"what is", "how many", "when did", "where is", "who is"} :
                       StartsWith(Lower(message), ph)}

\* C14: a message that starts with a question phrase, has text after it and
\* matches no tier before the remote services invokes the remote instant-answer
\* operation with the text after the phrase as the query.
C14_QuestionToInstantAnswer ==
  \A k \in Calls :
     \A ph \in Leading(calls[k].msg) :
        ~HigherTier(calls[k].msg) /\ Strip(Drop(calls[k].msg, Len(ph))) # ""
        => /\ calls[k].handler = "_handle_mcp_command"
           /\ calls[k].op = "get_instant_answer"
           /\ calls[k].arg = Strip(Drop(calls[k].msg, Len(ph)))

\* the sub-action a call has taken, by what it did
SubAction(k) ==
  [handler |-> calls[k].handler,
   created |-> Len(calls[k].after) - Len(calls[k].before),
   dispatched |-> calls[k].handle.action_type,
   op |-> calls[k].op]

\* C15: two messages that differ only in the letter case select the same tier
\* and the same sub-action.
C15_CaseFolded ==
  \A k1, k2 \in Calls :
     Lower(calls[k1].msg) = Lower(calls[k2].msg) => SubAction(k1) = SubAction(k2)

\* whether a keyword of the todo, agent or desktop tier is in the message
BeforeWeb(message) ==
  ContainsAny(Lower(message), {"todo", "task", "execute", "run", "desktop",
                               "screenshot", "xfce"})

\* C16: a message with 'search', no keyword of the todo, agent and desktop
\* tiers, and a query q left when 'search' is removed, goes to the web-search
\* handler and not to the remote search: one action of kind web_search is
\* created, with description 'Search: q', and the response carries its id.
C16_SearchDispatchesAction ==
  [][\A k \in {NewCall} \ {0} :
        LET q == Strip(Remove(calls'[k].msg, "search"))
        IN /\ Contains(calls'[k].msg, "search")
           /\ ~BeforeWeb(calls'[k].msg)
           /\ q # ""
           => /\ calls'[k].handler = "_handle_web_command"
              /\ calls'[k].kind = "return"
              /\ calls'[k].op = ""
              /\ Len(actions') = Len(actions) + 1
              /\ SubSeq(actions', 1, Len(actions)) = actions
              /\ actions'[Len(actions')].action_type = "web_search"
              /\ actions'[Len(actions')].description = "Search: " \o q
              /\ calls'[k].handle.id = actions'[Len(actions')].id
              /\ calls'[k].resp = "[search] Search started: " \o q \o " (ID: "
                                    \o IntToStr(actions'[Len(actions')].id) \o ")"
              /\ calls'[k].msg = "search python tutorials"
                   => actions'[Len(actions')].description = "Search: python tutorials"]_vars

\* C16's case: 'search python tutorials' has been answered after an earlier
\* action, and its own action is stored
C16_Witness ==
  \E k \in Calls :
     /\ calls[k].msg = "search python tutorials"
     /\ calls[k].handle.id = 2
     /\ actions[2].description = "Search: python tutorials"
     /\ Len(sent[calls[k].conn]) = 2

CallsOf(c) == {k \in Calls : calls[k].conn = c}

\* the i-th of them
NthCallOf(c, i) == CHOOSE k \in CallsOf(c) : Cardinality({j \in CallsOf(c) : j <= k}) = i

\* C18: a connection's messages are processed one at a time: a message is read
\* only when the response to the one before has been sent, the k-th response
\* sent on a connection is the response to its k-th message, and a response is
\* sent to no other connection.
C18_OneAtATimeInOrder ==
  \A c \in Conns :
     /\ Len(sent[c]) <= Cardinality(CallsOf(c))
     /\ Cardinality(CallsOf(c)) <= Len(sent[c]) + 1
     /\ \A i \in 1..Len(sent[c]) :
           /\ calls[NthCallOf(c, i)].kind = "return"
           /\ sent[c][i] = calls[NthCallOf(c, i)].resp

\* C18's case: two connections are served, and one of them has had its response
\* while the other, whose message came first, is still waiting for a service
C18_Witness ==
  \E c, d \in Conns :
     /\ c # d
     /\ CallsOf(c) = {1} /\ CallsOf(d) = {2}
     /\ conns[c].pc = "await"
     /\ sent[c] = <<>>
     /\ Len(sent[d]) = 1
     /\ sent[d][1] # ""

\* the identifiers of the rows of a table
IdsOf(rows) == {rows[i].id : i \in 1..Len(rows)}

\* whether the rows have different identifiers
UniqueIds(rows) == \A i, j \in 1..Len(rows) : rows[i].id = rows[j].id => i = j

\* whether the rows of next that are not in rows have identifiers above every
\* identifier of rows
NewIdsAbove(rows, next) ==
  \A n \in IdsOf(next) \ IdsOf(rows) : \A o \in IdsOf(rows) : n > o

\* C19: identifiers are unique within the todos, the chat messages and the
\* actions, and a new record gets an identifier above every identifier given
\* out before for its kind: the identifier of a deleted todo is not used again.
C19_IdsUniqueAndFresh ==
  /\ [](/\ UniqueIds(todos) /\ UniqueIds(chatLog) /\ UniqueIds(actions)
        /\ \A id \in IdsOf(todos) : id <= todoSeq)
  /\ [][/\ todoSeq' >= todoSeq
        /\ \A n \in IdsOf(todos') \ IdsOf(todos) : n > todoSeq
        /\ IdsOf(chatLog) \subseteq IdsOf(chatLog')
        /\ NewIdsAbove(chatLog, chatLog')
        /\ IdsOf(actions) \subseteq IdsOf(actions')
        /\ NewIdsAbove(actions, actions')]_vars

\* C19's case: a message has created a todo in an empty table, the todo with
\* the greatest identifier having been deleted, and the todo has the next one
C19_Witness ==
  \E k \in Calls :
     /\ calls[k].before = <<>>
     /\ Len(calls[k].after) = 1
     /\ calls[k].after[1].id = 2

\* C20: every stored todo has updated timestamp >= created timestamp, the
\* created timestamp of a todo never changes, and an update of a todo sets its
\* updated timestamp to the time of the update.
C20_TimestampsOrdered ==
  [][\A i \in 1..Len(todos') :
        /\ todos'[i].updated_at.t >= todos'[i].created_at.t
        /\ \A j \in 1..Len(todos) :
              todos[j].id = todos'[i].id =>
                 /\ todos'[i].created_at = todos[j].created_at
                 /\ todos'[i] # todos[j] => todos'[i].updated_at = SqlTimestamp(now)]_vars

\* C21: from an empty todo store, creating a todo with title T and then listing
\* gives one entry, with title T, completed false, priority 'medium' and
\* created_at equal to updated_at, and the record create_todo returned is the
\* listed record, in id and in every field.
C21_CreateThenList ==
  \A i \in 1..(Len(http) - 1) :
     /\ http[i].op = "create_todo"
     /\ http[i].before = <<>>
     /\ http[i + 1].op = "get_todos"
     => /\ Len(http[i + 1].result) = 1
        /\ http[i + 1].result[1].title = http[i].arg
        /\ http[i + 1].result[1].completed = FALSE
        /\ http[i + 1].result[1].priority = "medium"
        /\ http[i + 1].result[1].created_at = http[i + 1].result[1].updated_at
        /\ http[i].result = http[i + 1].result[1]

\* the call of the REST API that a step has answered, or 0
NewResponse == IF Len(http') = Len(http) + 1 THEN Len(http') ELSE 0

\* C23: listing the todos is a pure read: two listings in a row, with no
\* mutation between them, return the same todos in the same order, and a
\* listing changes no stored todo, message or action.
C23_ListingIsPureRead ==
  /\ [](/\ \A i \in 1..Len(http) : http[i].op = "get_todos" => http[i].after = http[i].before
        /\ \A i \in 1..(Len(http) - 1) :
              /\ http[i].op = "get_todos" /\ http[i + 1].op = "get_todos"
              /\ http[i + 1].before = http[i].after
              => http[i + 1].result = http[i].result
        /\ \A k \in Calls : calls[k].msg = "list todos" => calls[k].after = calls[k].before
        /\ \A k \in Calls \ {1} :
              /\ calls[k - 1].msg = "list todos" /\ calls[k].msg = "list todos"
              /\ calls[k].before = calls[k - 1].after
              => calls[k].resp = calls[k - 1].resp)
  /\ [][\A i \in {NewResponse} \ {0} :
           http'[i].op = "get_todos" =>
              UNCHANGED <<todos, todoSeq, chatLog, history, actions, results>>]_vars
  /\ [][\A k \in {NewCall} \ {0} :
           calls'[k].msg = "list todos" =>
              /\ UNCHANGED <<todos, todoSeq, actions, results>>
              /\ SubSeq(chatLog', 1, Len(chatLog)) = chatLog]_vars

\* C23's case: with two todos of the same second in the store, one made through
\* the API and one in the chat, the todos have been listed twice in a row
C23_Witness ==
  \E i \in 1..(Len(http) - 1) :
     /\ http[i].op = "get_todos" /\ http[i + 1].op = "get_todos"
     /\ Len(http[i + 1].result) = 2
     /\ http[i + 1].result[1].created_at = http[i + 1].result[2].created_at
     /\ \E k \in Calls : Len(calls[k].after) > Len(calls[k].before)

\* whether the one-character string is a letter or a digit
WordChar(ch) ==
  \/ \E i \in 1..26 : Char(LowerLetters, i) = ch \/ Char(UpperLetters, i) = ch
  \/ IsDigit(ch)

\* whether w occurs in s as a whole word
WholeWord(s, w) ==
  \E i \in 1..(Len(s) - Len(w) + 1) :
     /\ SubSeq(s, i, i + Len(w) - 1) = w
     /\ i = 1 \/ ~WordChar(Char(s, i - 1))
     /\ i + Len(w) > Len(s) \/ ~WordChar(Char(s, i + Len(w)))

\* the timezone abbreviations that are whole words of the message, case folded
ZonesNamed(message) ==
  {tz \in {"utc", "est", "pst", "gmt", "jst", "cet"} : WholeWord(Lower(message), tz)}

\* C22: the timezone of a remote time query is an abbreviation among utc, est,
\* pst, gmt, jst, cet that is a whole word of the message, whatever its case, and
\* UTC when none is: an abbreviation inside a longer word selects nothing.
C22_TimezoneWholeWord ==
  \A k \in Calls :
     calls[k].op = "get_current_time" =>
        IF ZonesNamed(calls[k].msg) = {} THEN calls[k].arg = "UTC"
        ELSE \E tz \in ZonesNamed(calls[k].msg) : calls[k].arg = Upper(tz)

\* C24: an action with a file operation that is not read, write or append, and
\* an action of a kind that is not command, file_operation, web_search or
\* xfce_action, end with stored status 'completed', the result being the
\* 'Unknown file operation' or 'Unknown action type' message.
C24_UnknownIsCompleted ==
  \A id \in Ids :
     tasks[id].pc = "done" =>
        /\ /\ actions[id].action_type = "file_operation"
           /\ Get(tasks[id].params, "operation", "") \notin {"read", "write", "append"}
           => /\ actions[id].status = "completed"
              /\ actions[id].result =
                    "Unknown file operation: " \o Get(tasks[id].params, "operation", "")
        /\ actions[id].action_type \notin {"command", "file_operation", "web_search", "xfce_action"}
           => /\ actions[id].status = "completed"
              /\ actions[id].result = "Unknown action type: " \o actions[id].action_type

\* C24's case: an action with the file operation 'delete' and an action of kind
\* 'email' have both ended
C24_Witness ==
  \E i, j \in Ids :
     /\ tasks[i].pc = "done" /\ tasks[j].pc = "done"
     /\ actions[i].result = "Unknown file operation: delete"
     /\ actions[j].result = "Unknown action type: email"

\* whether the message is made of the phrases and of white space only
RECURSIVE MadeOf(_, _)
MadeOf(message, phrases) ==
  IF message = "" THEN TRUE
  ELSE IF Head(message) \in WhiteSpace THEN MadeOf(Tail(message), phrases)
  ELSE \E ph \in phrases : StartsWith(message, ph) /\ MadeOf(Drop(message, Len(ph)), phrases)

\* C25: an 'execute command' or 'run command' message with nothing after the
\* phrase, and a 'search' message with no query, are answered with their
\* 'Please provide ...' guidance string, and no action is dispatched: the
\* actions and the todos are unchanged.
C25_NoParameterNoAction ==
  [][\A k \in {NewCall} \ {0} :
        /\ /\ Contains(calls'[k].msg, "command")
           /\ MadeOf(calls'[k].msg, {"execute command", "run command"})
           => calls'[k].resp = "Please provide a command. Example: 'execute command ls -la'"
        /\ /\ Contains(calls'[k].msg, "search")
           /\ MadeOf(calls'[k].msg, {"search"})
           => calls'[k].resp = "Please provide a search query. Example: 'search python tutorials'"
        /\ \/ Contains(calls'[k].msg, "command")
              /\ MadeOf(calls'[k].msg, {"execute command", "run command"})
           \/ Contains(calls'[k].msg, "search") /\ MadeOf(calls'[k].msg, {"search"})
           => /\ calls'[k].kind = "return"
              /\ calls'[k].handle = NoHandle
              /\ UNCHANGED <<actions, tasks, results, todos, todoSeq>>]_vars

\* C25's case: after an action has been dispatched, 'run command' without a
\* command has been answered with the guidance string
C25_Witness ==
  \E k \in Calls :
     /\ calls[k].msg = " run command  "
     /\ calls[k].resp = "Please provide a command. Example: 'execute command ls -la'"
     /\ Len(actions) = 1
     /\ Len(sent[calls[k].conn]) = 2

\* C26: every call of process_message stores one user-role message with the
\* text as received, in the durable log and in conversation_history, also when
\* the handler returns a guidance string or raises; nothing else adds, changes
\* or removes a chat message.
C26_UserMessagePersisted ==
  [][IF NewCall # 0
     THEN LET message == [id |-> Len(chatLog) + 1, role |-> "user",
                          content |-> calls'[NewCall].msg]
          IN /\ chatLog' = Append(chatLog, message)
             /\ Len(history') = Min(Len(history) + 1, max_history)
             /\ history'[Len(history')] = message
             /\ \A i \in 1..(Len(history') - 1) :
                   history'[i] = history[i + Len(history) + 1 - Len(history')]
     ELSE chatLog' = chatLog /\ history' = history]_vars

\* C26's case: the message of a call that raised and the message of a call that
\* was answered with a guidance string are both in the log and in the history
C26_Witness ==
  \E k1, k2 \in Calls :
     /\ calls[k1].kind = "return" /\ StartsWith(calls[k1].resp, "Please provide")
     /\ calls[k2].kind = "raise"
     /\ \A k \in {k1, k2} :
           /\ chatLog[k].content = calls[k].msg /\ chatLog[k].role = "user"
           /\ history[k] = chatLog[k]

\* C27: every message process_message routes to _handle_mcp_command is answered
\* by the time operation or by the thinking operation; the web-screenshot,
\* instant-answer and search branches and the help string are never the answer.
C27_McpIsTimeOrThinking ==
  \A k \in Calls :
     calls[k].handler = "_handle_mcp_command"
        => /\ calls[k].op \in {"get_current_time", "think_about"}
           /\ calls[k].op = "get_current_time"
                 <=> ContainsAny(Lower(calls[k].msg), {"time", "date"})

\* C27's case: a message of the remote-service tier without a time word was
\* handed to the thinking operation and its answer was sent
C27_Witness ==
  \E k \in Calls :
     /\ calls[k].handler = "_handle_mcp_command"
     /\ Contains(calls[k].msg, "reason")
     /\ calls[k].op = "think_about"
     /\ sent[calls[k].conn] # <<>>

\* the actions execute_action has returned a handle for since the process started
Handles == {calls[k].handle.id : k \in Calls} \ {0}

\* the handle execute_action returned keeps status 'running' and result ''
HandlesKept ==
  \A k \in Calls :
     calls[k].handle.id # 0
        => /\ calls[k].handle.status = "running"
           /\ calls[k].handle.result = ""
           /\ calls[k].handle.id \in 1..Len(actions)
           /\ calls[k].handle.action_type = actions[calls[k].handle.id].action_type

\* C28 as stated: at every moment results has an entry for an action exactly
\* when its stored status is terminal, with the stored status and result, and
\* the handles keep status 'running' and an empty result.
C28_ResultsMirrorStore ==
  /\ \A id \in 1..Len(actions) :
        /\ id \in DOMAIN results <=> actions[id].status \in Terminal
        /\ id \in DOMAIN results
              => results[id] = [status |-> actions[id].status, result |-> actions[id].result]
  /\ DOMAIN results \subseteq 1..Len(actions)
  /\ HandlesKept

\* C28 (amended): for the actions dispatched since the process started, results
\* has an entry exactly when the stored status is terminal, with the stored
\* status and result; it has no entry for any other action; the handles keep
\* status 'running' and an empty result.
C28_ResultsMirrorOwnActions ==
  /\ \A id \in 1..Len(actions) :
        /\ id \in DOMAIN results <=> id \in Handles /\ actions[id].status \in Terminal
        /\ id \in DOMAIN results
              => results[id] = [status |-> actions[id].status, result |-> actions[id].result]
  /\ DOMAIN results \subseteq 1..Len(actions)
  /\ HandlesKept

\* C28's case: on a store with an ended action of an earlier run, an action of
\* this run has ended and is in results, while its handle still says 'running'
C28_Witness ==
  \E k \in Calls :
     /\ calls[k].handle.id = 2
     /\ calls[k].handle.status = "running"
     /\ actions[1].status = "completed"
     /\ actions[2].status \in Terminal
     /\ DOMAIN results = {2}

\* C29: with several actions running, in any order of completion, a stored row
\* changes only in the step that ends its own task, and then only in status and
\* result; the result stored is the one of the action's own body; no row is
\* removed.
C29_OwnRowOnly ==
  [][/\ Len(actions') >= Len(actions)
     /\ \A id \in 1..Len(actions) :
           actions'[id] # actions[id]
              => /\ tasks[id].pc \in {"scheduled", "running"}
                 /\ tasks'[id].pc = "done"
                 /\ actions'[id].id = id
                 /\ actions'[id].action_type = actions[id].action_type
                 /\ actions'[id].description = actions[id].description
                 /\ actions'[id].status \in Terminal
                 /\ \E env \in Envs :
                       actions'[id].result =
                          ActionBody(actions[id], tasks[id].params, env).value
                 /\ \A other \in 1..Len(actions) \ {id} :
                       actions'[other] = actions[other] /\ tasks'[other] = tasks[other]
     /\ \A id \in 1..Len(actions) :
           tasks[id].pc # "done" /\ tasks'[id].pc = "done"
              => actions'[id] # actions[id]]_vars

\* C29's case: of two actions running at once, the second has ended first, with
\* a result of its own, and the first is still running
C29_Witness ==
  /\ Len(actions) = 2
  /\ tasks[1].pc = "running"
  /\ actions[1] = [id |-> 1, action_type |-> actions[1].action_type,
                   description |-> actions[1].description,
                   status |-> "running", result |-> ""]
  /\ tasks[2].pc = "done"
  /\ actions[2].status \in Terminal
  /\ actions[2].action_type # actions[1].action_type

\* how many times connection c is in active_connections
Registered(list, c) == Cardinality({i \in 1..Len(list) : list[i] = c})

\* the connections whose receive loop runs: accepted, and not ended
Live(cs) == {c \in Conns : cs[c].pc \in {"recv", "await", "send"}}

\* C30: a connection is in active_connections, once, from its accept until its
\* receive loop ends, and not at all before or after; the step that ends the
\* loop of one connection, by a disconnect of the client or by an exception of
\* process_message, removes that connection and leaves every other connection
\* registered and where it was.
C30_RegistryTracksLive ==
  [][/\ \A c \in Conns :
           /\ Registered(active, c) = (IF c \in Live(conns) THEN 1 ELSE 0)
           /\ Registered(active', c) = (IF c \in Live(conns') THEN 1 ELSE 0)
     /\ \A c \in Conns :
           conns[c].pc # "closed" /\ conns'[c].pc = "closed"
              => /\ c \in Live(conns)
                 /\ active' = RemoveFirst(active, c)
                 /\ \A other \in Conns \ {c} : conns'[other] = conns[other]
     /\ \A c \in Conns : conns[c].pc = "closed" => conns'[c].pc = "closed"]_vars

\* C30's case: the loop of one connection has ended by an exception raised by
\* process_message, and another connection, accepted before, has been answered
\* after that and is still registered
C30_Witness ==
  \E k1, k2 \in Calls :
     /\ k1 < k2
     /\ calls[k1].conn = "c1" /\ calls[k1].kind = "raise"
     /\ conns["c1"].pc = "closed"
     /\ calls[k2].conn = "c2"
     /\ sent["c2"] # <<>>
     /\ conns["c2"].pc = "recv"
     /\ active = <<"c2">>

====
